---------------------------- MODULE Spec2Model ----------------------------
(***************************************************************************)
(* Model of lms/djangoapps/program_enrollments/rest_api/v1/serializers.py. *)
(*                                                                         *)
(* The file declares serializers: tables of fields.  What a serializer     *)
(* does with a payload (is_valid), with a source record (data) and with    *)
(* its error report (has_invalid_status) is what the declared field        *)
(* classes of rest_framework do; the field classes are modelled by what    *)
(* they compute (blank test after trimming, UUID parsing and formatting,   *)
(* attribute lookup with SkipField, None passed through as null).          *)
(*                                                                         *)
(* Python values are records [t, v]: t is the type, v the value's text as  *)
(* a sequence of one-character strings.  A mapping or an object is a       *)
(* function from names to values; a name outside its DOMAIN is a missing   *)
(* key or attribute.  A related object is an attribute whose value is an   *)
(* object again, as in obj.program_enrollment.external_user_key.           *)
(***************************************************************************)
EXTENDS Integers, Sequences, FiniteSets, TLC

VARIABLES
    serializer,      \* the serializer class in use
    many,            \* constructed with many=True (a ListSerializer of it)
    initial_data,    \* the payload given as data= (NoData when none)
    instance,        \* the source record given as instance (NoData when none)
    is_validated,    \* is_valid() has run: _errors and _validated_data exist
    errors,          \* _errors: field name -> sequence of error codes
    validated_data,  \* _validated_data: source name -> value
    data,            \* the emitted mapping: field name -> value
    rendered,        \* .data has been computed
    invalid_status,  \* what has_invalid_status() returned last ("unset" before)
    op,              \* the last operation called ("__init__" before any)
    raised           \* the exception the last operation ended in, or "none"

vars == <<serializer, many, initial_data, instance, is_validated, errors,
          validated_data, data, rendered, invalid_status, op, raised>>

-----------------------------------------------------------------------------
(* Python values *)

None == [t |-> "none", v |-> <<>>]
Str(s) == [t |-> "str", v |-> s]
Bool(b) == [t |-> "bool", v |-> IF b THEN <<"T","r","u","e">> ELSE <<"F","a","l","s","e">>]
Float(s) == [t |-> "float", v |-> s]
Uuid(h) == [t |-> "uuid", v |-> h]
DateTime(s) == [t |-> "datetime", v |-> s]
Object(m) == [t |-> "object", v |-> <<>>, map |-> m]
List(xs) == [t |-> "list", v |-> <<>>, items |-> xs]
Dict(m) == [t |-> "dict", v |-> <<>>, map |-> m]

\* The empty mapping, and a marker for "no data= / no instance given".
EmptyMap == [k \in {} |-> None]
NoData == [t |-> "nodata", v |-> <<>>]

\* d with d[k] set to x (k is added when it is not a key yet).
Put(d, k, x) == [j \in DOMAIN d \cup {k} |-> IF j = k THEN x ELSE d[j]]

-----------------------------------------------------------------------------
(* str methods used by the field classes *)

Whitespace == {" ", "\t", "\n", "\r"}
HexLower == {"0","1","2","3","4","5","6","7","8","9","a","b","c","d","e","f"}
HexUpper == {"A","B","C","D","E","F"}
Digits == {"0","1","2","3","4","5","6","7","8","9"}

RECURSIVE LStrip(_, _)
LStrip(s, chars) ==
    IF s # <<>> /\ Head(s) \in chars THEN LStrip(Tail(s), chars) ELSE s

RECURSIVE RStrip(_, _)
RStrip(s, chars) ==
    IF s # <<>> /\ s[Len(s)] \in chars
    THEN RStrip(SubSeq(s, 1, Len(s) - 1), chars)
    ELSE s

\* s.strip(chars)
Strip(s, chars) == RStrip(LStrip(s, chars), chars)

StartsWith(s, p) == Len(s) >= Len(p) /\ SubSeq(s, 1, Len(p)) = p
EndsWith(s, p) == Len(s) >= Len(p) /\ SubSeq(s, Len(s) - Len(p) + 1, Len(s)) = p

\* s.replace(p, ''), p not empty
RECURSIVE RemoveAll(_, _)
RemoveAll(s, p) ==
    IF s = <<>> THEN <<>>
    ELSE IF StartsWith(s, p) THEN RemoveAll(SubSeq(s, Len(p) + 1, Len(s)), p)
    ELSE <<Head(s)>> \o RemoveAll(Tail(s), p)

ToLower(c) ==
    CASE c = "A" -> "a" [] c = "B" -> "b" [] c = "C" -> "c"
      [] c = "D" -> "d" [] c = "E" -> "e" [] c = "F" -> "f"
      [] OTHER -> c

\* str(value), for the scalar value types of the model
PyStr(x) ==
    CASE x.t = "none" -> <<"N","o","n","e">>
      [] x.t = "uuid" ->
            SubSeq(x.v, 1, 8) \o <<"-">> \o SubSeq(x.v, 9, 12) \o <<"-">>
            \o SubSeq(x.v, 13, 16) \o <<"-">> \o SubSeq(x.v, 17, 20) \o <<"-">>
            \o SubSeq(x.v, 21, 32)
      [] x.t \in {"str", "bool", "float"} -> x.v

\* uuid.UUID(hex=s): the parsed UUID, or None where Python raises ValueError.
UuidFromHex(s) ==
    LET a == RemoveAll(RemoveAll(s, <<"u","r","n",":">>), <<"u","u","i","d",":">>)
        h == RemoveAll(Strip(a, {"{", "}"}), <<"-">>)
    IN  IF Len(h) = 32 /\ \A i \in 1..Len(h) : h[i] \in HexLower \cup HexUpper
        THEN Uuid([i \in 1..32 |-> ToLower(h[i])])
        ELSE None

\* Whether s has the form 8-4-4-4-12 of hexadecimal digits.
IsUuidString(s) ==
    /\ Len(s) = 36
    /\ \A i \in 1..36 :
          IF i \in {9, 14, 19, 24} THEN s[i] = "-" ELSE s[i] \in HexLower \cup HexUpper

-----------------------------------------------------------------------------
(* The serializers: their declared fields, in declaration order *)

\* A declared field with the defaults of rest_framework.fields.Field.
Field(cls, name) ==
    [class |-> cls, field_name |-> name, source |-> name, required |-> TRUE,
     allow_blank |-> FALSE, allow_null |-> FALSE, read_only |-> FALSE,
     choices |-> <<>>, child |-> ""]

\* SerializerMethodField: read-only, source '*', computed by get_<field_name>.
MethodField(name) ==
    [Field("SerializerMethodField", name) EXCEPT !.source = "*", !.read_only = TRUE,
                                                 !.required = FALSE]

\* CourseRunProgressStatuses (rest_api/v1/constants.py)
IN_PROGRESS == <<"i","n","_","p","r","o","g","r","e","s","s">>
UPCOMING == <<"u","p","c","o","m","i","n","g">>
COMPLETED == <<"c","o","m","p","l","e","t","e","d">>

\* Variant: COMPLETED left out of the choices.
STATUS_CHOICES_without_completed == <<IN_PROGRESS, UPCOMING>>

STATUS_CHOICES == <<IN_PROGRESS, UPCOMING, COMPLETED>>

ProgramEnrollmentSerializer ==
    << [Field("CharField", "student_key") EXCEPT !.source = "external_user_key"],
       Field("CharField", "status"),
       MethodField("account_exists"),
       Field("UUIDField", "curriculum_uuid") >>

\* Variant: status declared as a ChoiceField over the program enrollment statuses.
ProgramEnrollmentRequestMixin_status_choice ==
    << [Field("CharField", "student_key") EXCEPT !.allow_blank = FALSE,
                                                 !.source = "external_user_key"],
       [Field("ChoiceField", "status") EXCEPT
            !.choices = << <<"e","n","r","o","l","l","e","d">>,
                           <<"p","e","n","d","i","n","g">> >>] >>

\* Variant: the fields declared with allow_blank=True.
ProgramEnrollmentRequestMixin_allow_blank ==
    << [Field("CharField", "student_key") EXCEPT !.allow_blank = TRUE,
                                                 !.source = "external_user_key"],
       [Field("CharField", "status") EXCEPT !.allow_blank = TRUE] >>

\* Variant: student_key declared without source='external_user_key'.
ProgramEnrollmentRequestMixin_no_source ==
    << [Field("CharField", "student_key") EXCEPT !.allow_blank = FALSE],
       [Field("CharField", "status") EXCEPT !.allow_blank = FALSE] >>

ProgramEnrollmentRequestMixin ==
    << [Field("CharField", "student_key") EXCEPT !.allow_blank = FALSE,
                                                 !.source = "external_user_key"],
       [Field("CharField", "status") EXCEPT !.allow_blank = FALSE] >>

ProgramEnrollmentCreateRequestSerializer ==
    ProgramEnrollmentRequestMixin \o << Field("UUIDField", "curriculum_uuid") >>

ProgramEnrollmentUpdateRequestSerializer == ProgramEnrollmentRequestMixin

ProgramCourseEnrollmentSerializer ==
    << MethodField("student_key"),
       Field("CharField", "status"),
       MethodField("account_exists"),
       MethodField("curriculum_uuid") >>

ProgramCourseEnrollmentRequestSerializer ==
    << [Field("CharField", "student_key") EXCEPT !.allow_blank = FALSE,
                                                 !.source = "external_user_key"],
       [Field("CharField", "status") EXCEPT !.allow_blank = FALSE] >>

\* Variant: error declared without required=False.
ProgramCourseGradeSerializer_error_required ==
    << MethodField("student_key"),
       [Field("BooleanField", "passed") EXCEPT !.required = FALSE],
       [Field("FloatField", "percent") EXCEPT !.required = FALSE],
       [Field("CharField", "letter_grade") EXCEPT !.required = FALSE],
       Field("CharField", "error") >>

\* Variant: the optional fields declared with allow_null=True as well.
ProgramCourseGradeSerializer_allow_null ==
    << MethodField("student_key"),
       [Field("BooleanField", "passed") EXCEPT !.required = FALSE, !.allow_null = TRUE],
       [Field("FloatField", "percent") EXCEPT !.required = FALSE, !.allow_null = TRUE],
       [Field("CharField", "letter_grade") EXCEPT !.required = FALSE, !.allow_null = TRUE],
       [Field("CharField", "error") EXCEPT !.required = FALSE, !.allow_null = TRUE] >>

ProgramCourseGradeSerializer ==
    << MethodField("student_key"),
       [Field("BooleanField", "passed") EXCEPT !.required = FALSE],
       [Field("FloatField", "percent") EXCEPT !.required = FALSE],
       [Field("CharField", "letter_grade") EXCEPT !.required = FALSE],
       [Field("CharField", "error") EXCEPT !.required = FALSE] >>

DueDateSerializer ==
    << Field("CharField", "name"),
       Field("CharField", "url"),
       Field("DateTimeField", "date") >>

CourseRunOverviewSerializer ==
    << Field("CharField", "course_run_id"),
       Field("CharField", "display_name"),
       [Field("CharField", "resume_course_run_url") EXCEPT !.required = FALSE],
       Field("CharField", "course_run_url"),
       Field("DateTimeField", "start_date"),
       Field("DateTimeField", "end_date"),
       [Field("ChoiceField", "course_run_status") EXCEPT !.allow_blank = FALSE,
                                                         !.choices = STATUS_CHOICES],
       [Field("BooleanField", "emails_enabled") EXCEPT !.required = FALSE],
       [Field("ListField", "due_dates") EXCEPT !.child = "DueDateSerializer"],
       [Field("CharField", "micromasters_title") EXCEPT !.required = FALSE],
       [Field("CharField", "certificate_download_url") EXCEPT !.required = FALSE] >>

CourseRunOverviewListSerializer ==
    << [Field("ListField", "course_runs") EXCEPT !.child = "CourseRunOverviewSerializer"] >>

\* The classes that inherit InvalidStatusMixin.
HasInvalidStatusMixin ==
    {"ProgramEnrollmentCreateRequestSerializer",
     "ProgramEnrollmentUpdateRequestSerializer",
     "ProgramCourseEnrollmentRequestSerializer"}

\* The declared fields of a serializer class.
Fields(cls) ==
    CASE cls = "ProgramEnrollmentSerializer" -> ProgramEnrollmentSerializer
      [] cls = "ProgramEnrollmentCreateRequestSerializer" ->
            ProgramEnrollmentCreateRequestSerializer
      [] cls = "ProgramEnrollmentUpdateRequestSerializer" ->
            ProgramEnrollmentUpdateRequestSerializer
      [] cls = "ProgramCourseEnrollmentSerializer" -> ProgramCourseEnrollmentSerializer
      [] cls = "ProgramCourseEnrollmentRequestSerializer" ->
            ProgramCourseEnrollmentRequestSerializer
      [] cls = "ProgramCourseGradeSerializer" -> ProgramCourseGradeSerializer
      [] cls = "DueDateSerializer" -> DueDateSerializer
      [] cls = "CourseRunOverviewSerializer" -> CourseRunOverviewSerializer
      [] cls = "CourseRunOverviewListSerializer" -> CourseRunOverviewListSerializer

-----------------------------------------------------------------------------
(* Inbound: is_valid() -> run_validation -> to_internal_value *)

\* rest_framework.fields.empty: the key is not in the payload.
Empty == [t |-> "empty", v |-> <<>>]

\* What validating one field gives: a value, a ValidationError, or SkipField.
Value(x) == [kind |-> "value", value |-> x, codes |-> <<>>]
Fail(code) == [kind |-> "error", value |-> None, codes |-> <<code>>]
FailAll(codes) == [kind |-> "error", value |-> None, codes |-> codes]
SkipField == [kind |-> "skip", value |-> None, codes |-> <<>>]

\* Field.get_value: dictionary.get(field_name, empty)
GetValue(f, m) == IF f.field_name \in DOMAIN m THEN m[f.field_name] ELSE Empty

\* data == '' or str(data).strip() == '': only a str is ever blank, the str()
\* of any other value (None, empty, a number) is not.
IsBlank(x) == x.t = "str" /\ Strip(x.v, Whitespace) = <<>>

TRUE_VALUES ==
    { <<"t">>, <<"T">>, <<"y">>, <<"Y">>, <<"y","e","s">>, <<"Y","E","S">>,
      <<"t","r","u","e">>, <<"T","r","u","e">>, <<"T","R","U","E">>,
      <<"o","n">>, <<"O","n">>, <<"O","N">>, <<"1">> }
FALSE_VALUES ==
    { <<"f">>, <<"F">>, <<"n">>, <<"N">>, <<"n","o">>, <<"N","O">>,
      <<"f","a","l","s","e">>, <<"F","a","l","s","e">>, <<"F","A","L","S","E">>,
      <<"o","f","f">>, <<"O","f","f">>, <<"O","F","F">>, <<"0">> }

\* float(s) succeeds on the decimal texts of the model: digits, one optional point.
IsFloatText(s) ==
    LET d == RemoveAll(s, <<".">>)
    IN  /\ d # <<>>
        /\ Len(s) - Len(d) <= 1
        /\ \A i \in 1..Len(d) : d[i] \in Digits

\* parse_datetime on YYYY-MM-DDTHH:MM:SS followed by Z or +00:00.
IsIsoDateTime(s) ==
    LET body == IF EndsWith(s, <<"Z">>) THEN SubSeq(s, 1, Len(s) - 1)
                ELSE IF EndsWith(s, <<"+","0","0",":","0","0">>)
                     THEN SubSeq(s, 1, Len(s) - 6)
                     ELSE <<>>
    IN  /\ Len(body) = 19
        /\ \A i \in 1..19 :
              CASE i \in {5, 8} -> body[i] = "-"
                [] i = 11 -> body[i] = "T"
                [] i \in {14, 17} -> body[i] = ":"
                [] OTHER -> body[i] \in Digits

\* The datetime an ISO text parses to; the value keeps its isoformat() text.
ParseDateTime(s) ==
    IF EndsWith(s, <<"Z">>)
    THEN DateTime(SubSeq(s, 1, Len(s) - 1) \o <<"+","0","0",":","0","0">>)
    ELSE DateTime(s)

\* <field class>.to_internal_value, for the scalar field classes
ScalarToInternal(f, x) ==
    CASE f.class = "CharField" ->
            IF x.t \in {"str", "float"} THEN Value(Str(Strip(PyStr(x), Whitespace)))
            ELSE Fail("invalid")
      [] f.class = "UUIDField" ->
            IF x.t = "uuid" THEN Value(x)
            ELSE IF x.t = "str" /\ UuidFromHex(x.v) # None THEN Value(UuidFromHex(x.v))
            ELSE Fail("invalid")
      [] f.class = "ChoiceField" ->
            IF x = Str(<<>>) /\ f.allow_blank THEN Value(x)
            ELSE IF x.t \in {"str", "bool", "float"}
                    /\ \E i \in 1..Len(f.choices) : f.choices[i] = PyStr(x)
                 THEN Value(Str(PyStr(x)))
                 ELSE Fail("invalid_choice")
      [] f.class = "BooleanField" ->
            IF x.t = "bool" THEN Value(x)
            ELSE IF x.t = "str" /\ x.v \in TRUE_VALUES THEN Value(Bool(TRUE))
            ELSE IF x.t = "str" /\ x.v \in FALSE_VALUES THEN Value(Bool(FALSE))
            ELSE Fail("invalid")
      [] f.class = "FloatField" ->
            IF x.t = "float" THEN Value(x)
            ELSE IF x.t = "str" /\ IsFloatText(Strip(x.v, Whitespace))
                 THEN Value(Float(Strip(x.v, Whitespace)))
                 ELSE Fail("invalid")
      [] f.class = "DateTimeField" ->
            IF x.t = "datetime" THEN Value(x)
            ELSE IF x.t = "str" /\ IsIsoDateTime(x.v) THEN Value(ParseDateTime(x.v))
            ELSE Fail("invalid")

\* Field.validate_empty_values: a missing key is 'required' (or skipped when the
\* field is not required: no field here declares a default), None is 'null'
\* unless the field allows it.
ValidateEmptyValues(f, x) ==
    IF x = Empty THEN (IF f.required THEN Fail("required") ELSE SkipField)
    ELSE IF x = None THEN (IF f.allow_null THEN Value(None) ELSE Fail("null"))
    ELSE Value(x)

RECURSIVE RunValidation(_, _)
RECURSIVE ToInternalValue(_, _, _, _)
RECURSIVE SerializerRunValidation(_, _)
RECURSIVE RunChildValidation(_, _, _, _)

\* The error codes of a serializer's error report, in field order.
RECURSIVE ErrorCodes(_, _)
ErrorCodes(fs, errs) ==
    IF fs = <<>>
    THEN (IF "non_field_errors" \in DOMAIN errs THEN errs["non_field_errors"] ELSE <<>>)
    ELSE (IF Head(fs).field_name \in DOMAIN errs THEN errs[Head(fs).field_name] ELSE <<>>)
         \o ErrorCodes(Tail(fs), errs)

\* ListField.run_child_validation: every item through the child serializer; the
\* validated items, or the items' error codes one after the other.
RunChildValidation(child, items, ret, codes) ==
    IF items = <<>>
    THEN (IF codes = <<>> THEN Value(List(ret)) ELSE FailAll(codes))
    ELSE LET r == SerializerRunValidation(child, Head(items))
         IN  IF r.errors = EmptyMap
             THEN RunChildValidation(child, Tail(items), Append(ret, Dict(r.ret)), codes)
             ELSE RunChildValidation(child, Tail(items), ret,
                                     codes \o ErrorCodes(Fields(child), r.errors))

\* <field>.run_validation(data)
RunValidation(f, x) ==
    IF f.class = "CharField" /\ IsBlank(x)
    THEN (IF f.allow_blank THEN Value(Str(<<>>)) ELSE Fail("blank"))
    ELSE LET e == ValidateEmptyValues(f, x)
         IN  IF e.kind # "value" \/ x = None THEN e
             ELSE IF f.class = "ListField"
                  THEN (IF x.t = "list"
                        THEN RunChildValidation(f.child, x.items, <<>>, <<>>)
                        ELSE Fail("not_a_list"))
                  ELSE ScalarToInternal(f, x)

\* Serializer.to_internal_value: each writable field in declaration order; a
\* value goes to ret under the field's source, an error to errors under the
\* field's name.
ToInternalValue(fs, m, ret, errs) ==
    IF fs = <<>> THEN [ret |-> IF errs = EmptyMap THEN ret ELSE EmptyMap, errors |-> errs]
    ELSE LET f == Head(fs)
             r == RunValidation(f, GetValue(f, m))
         IN  IF f.read_only THEN ToInternalValue(Tail(fs), m, ret, errs)
             ELSE CASE r.kind = "value" ->
                         ToInternalValue(Tail(fs), m, Put(ret, f.source, r.value), errs)
                    [] r.kind = "error" ->
                         ToInternalValue(Tail(fs), m, ret, Put(errs, f.field_name, r.codes))
                    [] r.kind = "skip" ->
                         ToInternalValue(Tail(fs), m, ret, errs)

\* Serializer.run_validation(data), as is_valid() records it:
\* [ret |-> _validated_data, errors |-> _errors].
SerializerRunValidation(cls, x) ==
    IF x = None
    THEN [ret |-> EmptyMap, errors |-> Put(EmptyMap, "non_field_errors", <<"null">>)]
    ELSE IF x.t # "dict"
    THEN [ret |-> EmptyMap, errors |-> Put(EmptyMap, "non_field_errors", <<"invalid">>)]
    ELSE ToInternalValue(Fields(cls), x.map, EmptyMap, EmptyMap)

\* ListSerializer.to_internal_value: one error report per item, in order.
RECURSIVE ListErrors(_, _)
ListErrors(cls, items) ==
    IF items = <<>> THEN <<>>
    ELSE <<SerializerRunValidation(cls, Head(items)).errors>> \o ListErrors(cls, Tail(items))

RECURSIVE ListValidated(_, _)
ListValidated(cls, items) ==
    IF items = <<>> THEN <<>>
    ELSE <<SerializerRunValidation(cls, Head(items)).ret>> \o ListValidated(cls, Tail(items))

\* ListSerializer.run_validation(data), as ListSerializer.is_valid() records it:
\* _errors is [] and _validated_data the items' mappings when no item failed,
\* else _errors holds every item's report and _validated_data is [].
ListSerializerRunValidation(cls, x) ==
    IF x.t # "list"
    THEN [ret |-> <<>>, errors |-> Put(EmptyMap, "non_field_errors", <<"not_a_list">>)]
    ELSE LET es == ListErrors(cls, x.items)
         IN  IF \A i \in 1..Len(es) : es[i] = EmptyMap
             THEN [ret |-> ListValidated(cls, x.items), errors |-> <<>>]
             ELSE [ret |-> <<>>, errors |-> es]

-----------------------------------------------------------------------------
(* Outbound: .data -> to_representation *)

\* What a Python expression gives: a value, or the exception it raises.
Return(x) == [exc |-> "none", val |-> x]
Raise(e) == [exc |-> e, val |-> None]

\* getattr(x, name): only an object has attributes; None and the scalars of the
\* model have none of the names used here.
PyGetAttr(x, name) ==
    IF x.t = "object" /\ name \in DOMAIN x.map THEN Return(x.map[name])
    ELSE Raise("AttributeError")

\* bool(x)
PyBool(x) ==
    CASE x.t = "none" -> FALSE
      [] x.t = "bool" -> x = Bool(TRUE)
      [] x.t \in {"str", "float"} -> x.v # <<>>
      [] x.t = "list" -> x.items # <<>>
      [] x.t = "dict" -> DOMAIN x.map # {}
      [] OTHER -> TRUE

\* InvalidStatusMixin.has_invalid_status over self.errors
RECURSIVE AnyInvalidChoice(_)
AnyInvalidChoice(status_errors) ==
    IF status_errors = <<>> THEN FALSE
    ELSE IF Head(status_errors) = "invalid_choice" THEN TRUE
    ELSE AnyInvalidChoice(Tail(status_errors))

\* Variant: any error on 'status' counts, whatever its code.
has_invalid_status_any_code(errs) == "status" \in DOMAIN errs

has_invalid_status(errs) ==
    AnyInvalidChoice(IF "status" \in DOMAIN errs THEN errs["status"] ELSE <<>>)

\* ProgramEnrollmentSerializer.get_account_exists
ProgramEnrollmentSerializer_get_account_exists(obj) ==
    LET user == PyGetAttr(obj, "user")
    IN  IF user.exc # "none" THEN user ELSE Return(Bool(PyBool(user.val)))

\* obj.program_enrollment.<name>
ProgramEnrollmentAttr(obj, name) ==
    LET pe == PyGetAttr(obj, "program_enrollment")
    IN  IF pe.exc # "none" THEN pe ELSE PyGetAttr(pe.val, name)

\* Variant: the key read from the course enrollment itself.
ProgramCourseEnrollmentSerializer_get_student_key_own(obj) ==
    PyGetAttr(obj, "external_user_key")

\* ProgramCourseEnrollmentSerializer.get_student_key
ProgramCourseEnrollmentSerializer_get_student_key(obj) ==
    ProgramEnrollmentAttr(obj, "external_user_key")

\* Variant: the course enrollment's own link instead of the parent's user.
ProgramCourseEnrollmentSerializer_get_account_exists_own(obj) ==
    LET ce == PyGetAttr(obj, "course_enrollment")
    IN  IF ce.exc # "none" THEN ce ELSE Return(Bool(PyBool(ce.val)))

\* ProgramCourseEnrollmentSerializer.get_account_exists
ProgramCourseEnrollmentSerializer_get_account_exists(obj) ==
    LET user == ProgramEnrollmentAttr(obj, "user")
    IN  IF user.exc # "none" THEN user ELSE Return(Bool(PyBool(user.val)))

\* Variant: the UUID returned without text_type().
ProgramCourseEnrollmentSerializer_get_curriculum_uuid_raw(obj) ==
    ProgramEnrollmentAttr(obj, "curriculum_uuid")

\* ProgramCourseEnrollmentSerializer.get_curriculum_uuid
ProgramCourseEnrollmentSerializer_get_curriculum_uuid(obj) ==
    LET u == ProgramEnrollmentAttr(obj, "curriculum_uuid")
    IN  IF u.exc # "none" THEN u ELSE Return(Str(PyStr(u.val)))

\* ProgramCourseGradeSerializer.get_student_key
ProgramCourseGradeSerializer_get_student_key(obj) ==
    LET pce == PyGetAttr(obj, "program_course_enrollment")
    IN  IF pce.exc # "none" THEN pce
        ELSE ProgramEnrollmentAttr(pce.val, "external_user_key")

\* SerializerMethodField.to_representation: getattr(parent, 'get_' + field_name)(obj)
CallMethod(cls, name, obj) ==
    CASE cls = "ProgramEnrollmentSerializer" /\ name = "account_exists" ->
            ProgramEnrollmentSerializer_get_account_exists(obj)
      [] cls = "ProgramCourseEnrollmentSerializer" /\ name = "student_key" ->
            ProgramCourseEnrollmentSerializer_get_student_key(obj)
      [] cls = "ProgramCourseEnrollmentSerializer" /\ name = "account_exists" ->
            ProgramCourseEnrollmentSerializer_get_account_exists(obj)
      [] cls = "ProgramCourseEnrollmentSerializer" /\ name = "curriculum_uuid" ->
            ProgramCourseEnrollmentSerializer_get_curriculum_uuid(obj)
      [] cls = "ProgramCourseGradeSerializer" /\ name = "student_key" ->
            ProgramCourseGradeSerializer_get_student_key(obj)

\* Field.get_attribute: the instance itself for source '*', else the key of a
\* mapping or the attribute of an object; a missing one is None for a field
\* that allows null, SkipField for a field that is not required, and the
\* KeyError or AttributeError otherwise.
GetAttribute(f, inst) ==
    IF f.source = "*" THEN Return(inst)
    ELSE IF inst.t = "dict"
         THEN (IF f.source \in DOMAIN inst.map THEN Return(inst.map[f.source])
               ELSE IF f.allow_null THEN Return(None)
               ELSE IF ~f.required THEN Raise("SkipField") ELSE Raise("KeyError"))
         ELSE (IF PyGetAttr(inst, f.source).exc = "none" THEN PyGetAttr(inst, f.source)
               ELSE IF f.allow_null THEN Return(None)
               ELSE IF ~f.required THEN Raise("SkipField") ELSE Raise("AttributeError"))

\* DateTimeField.to_representation of a datetime: isoformat(), '+00:00' as 'Z'.
IsoFormat(x) ==
    IF EndsWith(x.v, <<"+","0","0",":","0","0">>)
    THEN Str(SubSeq(x.v, 1, Len(x.v) - 6) \o <<"Z">>)
    ELSE Str(x.v)

\* <field class>.to_representation, for the scalar field classes
ScalarToRepresentation(f, x) ==
    CASE f.class \in {"CharField", "UUIDField"} -> Return(Str(PyStr(x)))
      [] f.class = "BooleanField" ->
            IF x.t = "str" /\ x.v \in TRUE_VALUES THEN Return(Bool(TRUE))
            ELSE IF x.t = "str" /\ x.v \in FALSE_VALUES THEN Return(Bool(FALSE))
            ELSE Return(Bool(PyBool(x)))
      [] f.class = "FloatField" ->
            IF x.t = "float" THEN Return(x)
            ELSE IF x.t = "str" /\ IsFloatText(Strip(x.v, Whitespace))
                 THEN Return(Float(Strip(x.v, Whitespace)))
                 ELSE Raise("ValueError")
      [] f.class = "DateTimeField" ->
            IF ~PyBool(x) THEN Return(None)
            ELSE IF x.t = "str" THEN Return(x)
            ELSE Return(IsoFormat(x))
      [] f.class = "ChoiceField" ->
            IF x = Str(<<>>) THEN Return(x)
            ELSE IF x.t \in {"str", "bool", "float"}
                    /\ \E i \in 1..Len(f.choices) : f.choices[i] = PyStr(x)
                 THEN Return(Str(PyStr(x)))
                 ELSE Return(x)

RECURSIVE ToRepresentation(_, _, _, _)
RECURSIVE ListToRepresentation(_, _, _)

\* ListField.to_representation: each item through the child serializer, None kept.
ListToRepresentation(child, items, ret) ==
    IF items = <<>> THEN Return(List(ret))
    ELSE IF Head(items) = None
         THEN ListToRepresentation(child, Tail(items), Append(ret, None))
         ELSE LET r == ToRepresentation(child, Fields(child), Head(items), EmptyMap)
              IN  IF r.exc # "none" THEN r
                  ELSE ListToRepresentation(child, Tail(items), Append(ret, Dict(r.val)))

\* Serializer.to_representation: each field in declaration order; a skipped
\* field leaves no key, an attribute that is None is emitted as None, any other
\* goes through the field's to_representation.
ToRepresentation(cls, fs, inst, ret) ==
    IF fs = <<>> THEN Return(ret)
    ELSE LET f == Head(fs)
             a == GetAttribute(f, inst)
             r == IF f.class = "SerializerMethodField" THEN CallMethod(cls, f.field_name, a.val)
                  ELSE IF f.class = "ListField"
                       THEN (IF a.val.t = "list"
                             THEN ListToRepresentation(f.child, a.val.items, <<>>)
                             ELSE Raise("TypeError"))
                       ELSE ScalarToRepresentation(f, a.val)
         IN  IF a.exc = "SkipField" THEN ToRepresentation(cls, Tail(fs), inst, ret)
             ELSE IF a.exc # "none" THEN a
             ELSE IF a.val = None
                  THEN ToRepresentation(cls, Tail(fs), inst, Put(ret, f.field_name, None))
             ELSE IF r.exc # "none" THEN r
             ELSE ToRepresentation(cls, Tail(fs), inst, Put(ret, f.field_name, r.val))

-----------------------------------------------------------------------------
(* The inputs: payloads and source records *)

MaxBatch == 2        \* items of a many=True payload
MaxCourseRuns == 2   \* course runs of a CourseRunOverviewList source
MaxStatusErrors == 2 \* errors recorded on one field of an error report

\* All sequences over S of length lo..hi.
SeqsOf(S, lo, hi) == UNION {[1..n -> S] : n \in lo..hi}

\* The mappings with, for each key of opt, either no such key or one of opt[key].
RECURSIVE Records(_, _)
Records(keys, opt) ==
    IF keys = {} THEN {EmptyMap}
    ELSE LET k == CHOOSE x \in keys : TRUE
             rest == Records(keys \ {k}, opt)
         IN  rest \cup {Put(m, k, x) : m \in rest, x \in opt[k]}

\* The mappings with exactly the keys of req, each one of req[key].
Exactly(req) == {m \in Records(DOMAIN req, req) : DOMAIN m = DOMAIN req}

\* m1 and m2 together (their keys are disjoint).
Merge(m1, m2) ==
    [k \in DOMAIN m1 \cup DOMAIN m2 |-> IF k \in DOMAIN m1 THEN m1[k] ELSE m2[k]]

S_abc == <<"a","b","c">>
S_abc_padded == <<" ","a","b","c"," ">>
S_space == <<" ">>
S_enrolled == <<"e","n","r","o","l","l","e","d">>
S_pending == <<"p","e","n","d","i","n","g">>
S_active == <<"a","c","t","i","v","e">>
S_invalid_status_value == <<"i","n","v","a","l","i","d","_","s","t","a","t","u","s","_","v","a","l","u","e">>
S_archived == <<"a","r","c","h","i","v","e","d">>
S_A == <<"A">>
S_0_95 == <<"0",".","9","5">>
S_error == <<"g","r","a","d","e"," ","n","o","t"," ","f","o","u","n","d">>
S_course == <<"c","o","u","r","s","e","-","v","1",":","e","d","X","+","D","e","m","o","X","+","T","1">>
S_name == <<"D","e","m","o">>
S_url == <<"/","c","o","u","r","s","e","s","/","d","e","m","o">>
S_true == <<"t","r","u","e">>
S_date_Z == <<"2","0","1","9","-","0","1","-","0","1","T","0","0",":","0","0",":","0","0","Z">>
S_date_iso == <<"2","0","1","9","-","0","6","-","3","0","T","1","2",":","0","0",":","0","0","+","0","0",":","0","0">>
S_not_a_date == <<"t","o","m","o","r","r","o","w">>
Hex1 == <<"1","b","9","f","4","c","2","e","7","a","3","d","4","e","5","f","8","a","6","b","0","c","1","d","2","e","3","f","4","a","5","b">>
Hex2 == <<"0","0","0","0","0","0","0","0","0","0","0","0","4","0","0","0","8","0","0","0","0","0","0","0","0","0","0","0","0","0","0","2">>
S_uuid1 == <<"1","b","9","f","4","c","2","e","-","7","a","3","d","-","4","e","5","f","-","8","a","6","b","-","0","c","1","d","2","e","3","f","4","a","5","b">>
S_uuid2_upper == <<"{","0","0","0","0","0","0","0","0","-","0","0","0","0","-","4","0","0","0","-","8","0","0","0","-","0","0","0","0","0","0","0","0","0","0","0","A","}">>
S_not_a_uuid == <<"1","b","9","f","4","c","2","e","-","7","a","3","d">>

\* Payloads of the three request serializers.
RequestPayloads ==
    {Dict(m) : m \in Records({"student_key", "status", "curriculum_uuid"},
        [student_key |-> {None, Str(<<>>), Str(S_space), Str(S_abc), Str(S_abc_padded)},
         status |-> {None, Str(<<>>), Str(S_space), Str(S_enrolled),
                     Str(S_invalid_status_value)},
         curriculum_uuid |-> {Str(S_uuid1), Str(S_uuid2_upper), Str(S_not_a_uuid)}])}

\* Items of a batch (many=True) request.
BatchItems ==
    {Dict(m) : m \in Exactly(
        [student_key |-> {Str(<<>>), Str(S_abc)},
         status |-> {Str(<<>>), Str(S_enrolled), Str(S_invalid_status_value)},
         curriculum_uuid |-> {Str(S_uuid1)}])}

BatchPayloads == {List(xs) : xs \in SeqsOf(BatchItems, 1, MaxBatch)}

DueDatePayloads ==
    {Dict(m) : m \in Exactly(
        [name |-> {Str(S_name)}, url |-> {Str(S_url)},
         date |-> {Str(S_date_Z), Str(S_not_a_date)}])}

\* The required keys of a course run overview, as a payload and as a source.
OverviewBase(datev) ==
    [course_run_id |-> Str(S_course), display_name |-> Str(S_name),
     course_run_url |-> Str(S_url), start_date |-> datev, end_date |-> datev]

OverviewPayloads ==
    {Dict(Merge(OverviewBase(Str(S_date_iso)), m)) :
        m \in Records({"course_run_status", "emails_enabled", "due_dates"},
            [course_run_status |-> {None, Str(<<>>), Str(S_space), Str(IN_PROGRESS),
                                    Str(UPCOMING), Str(COMPLETED), Str(S_archived)},
             emails_enabled |-> {Str(S_true)},
             due_dates |-> {List(xs) : xs \in SeqsOf(DueDatePayloads, 0, 1)}])}

Users == {None, Object([username |-> Str(S_abc)])}

\* ProgramEnrollment records: external_user_key and user may be null.
ProgramEnrollments ==
    {Object(m) : m \in Exactly(
        [external_user_key |-> {None, Str(S_abc)},
         status |-> {Str(S_enrolled), Str(S_pending)},
         user |-> Users,
         curriculum_uuid |-> {Uuid(Hex1), Uuid(Hex2)}])}

\* ProgramCourseEnrollment records; course_enrollment is the record's own
\* optional link to a student's course enrollment.
ProgramCourseEnrollments ==
    {Object(m) : m \in Exactly(
        [status |-> {Str(S_active)},
         program_enrollment |-> ProgramEnrollments \cup {None},
         course_enrollment |-> {None, Object([is_active |-> Bool(TRUE)])}])}

GradeEnrollments ==
    {Object(m) : m \in Exactly(
        [status |-> {Str(S_active)},
         program_enrollment |->
            {None,
             Object([external_user_key |-> Str(S_abc), status |-> Str(S_enrolled),
                     user |-> None, curriculum_uuid |-> Uuid(Hex1)])},
         course_enrollment |-> {None}])}

\* BaseProgramCourseGrade objects: ProgramCourseGradeOk carries passed, percent
\* and letter_grade, ProgramCourseGradeError carries error.
ProgramCourseGradesOk ==
    {Object(Merge([program_course_enrollment |-> e], m)) :
        e \in GradeEnrollments,
        m \in Exactly([passed |-> {Bool(TRUE), Bool(FALSE), None},
                       percent |-> {Float(S_0_95), None},
                       letter_grade |-> {Str(S_A), None}])}

ProgramCourseGradesError ==
    {Object(Merge([program_course_enrollment |-> e], m)) :
        e \in GradeEnrollments, m \in Exactly([error |-> {Str(S_error), None}])}

DueDates ==
    {Dict(m) : m \in Exactly(
        [name |-> {Str(S_name)}, url |-> {Str(S_url)},
         date |-> {DateTime(S_date_iso)}])}

\* Course run overview sources: dicts built by the caller.
CourseRunOverviews ==
    {Dict(Merge(OverviewBase(DateTime(S_date_iso)), m)) :
        m \in Records({"course_run_status", "due_dates", "resume_course_run_url",
                       "emails_enabled", "micromasters_title",
                       "certificate_download_url"},
            [course_run_status |-> {Str(IN_PROGRESS), Str(UPCOMING), Str(COMPLETED),
                                    Str(S_archived)},
             due_dates |-> {List(xs) : xs \in SeqsOf(DueDates, 0, 1)},
             resume_course_run_url |-> {Str(S_url), None},
             emails_enabled |-> {Bool(TRUE), None},
             micromasters_title |-> {Str(S_name)},
             certificate_download_url |-> {None}])}

OverviewListItems ==
    {Dict(Merge(OverviewBase(DateTime(S_date_iso)), m)) :
        m \in Exactly([course_run_status |-> {Str(IN_PROGRESS), Str(S_archived)},
                       due_dates |-> {List(<<>>)}])}

CourseRunOverviewLists ==
    {Dict([course_runs |-> List(xs)]) : xs \in SeqsOf(OverviewListItems, 0, MaxCourseRuns)}

-----------------------------------------------------------------------------
(* The serializer's life: construction, is_valid(), has_invalid_status(), .data *)

\* Serializer(data=payload) or Serializer(instance): nothing validated or rendered.
Constructed ==
    /\ is_validated = FALSE
    /\ errors = EmptyMap
    /\ validated_data = EmptyMap
    /\ data = EmptyMap
    /\ rendered = FALSE
    /\ invalid_status = "unset"
    /\ op = "__init__"
    /\ raised = "none"

Init ==
    /\ Constructed
    /\ \/ /\ serializer \in HasInvalidStatusMixin
          /\ many = FALSE
          /\ initial_data \in RequestPayloads
          /\ instance = NoData
       \/ /\ serializer \in HasInvalidStatusMixin
          /\ many = TRUE
          /\ initial_data \in BatchPayloads
          /\ instance = NoData
       \/ /\ serializer = "CourseRunOverviewSerializer"
          /\ many = FALSE
          /\ initial_data \in OverviewPayloads
          /\ instance = NoData
       \/ /\ many = FALSE
          /\ initial_data = NoData
          /\ \/ serializer = "ProgramEnrollmentSerializer" /\ instance \in ProgramEnrollments
             \/ /\ serializer = "ProgramCourseEnrollmentSerializer"
                /\ instance \in ProgramCourseEnrollments
             \/ /\ serializer = "ProgramCourseGradeSerializer"
                /\ instance \in ProgramCourseGradesOk \cup ProgramCourseGradesError
             \/ serializer = "CourseRunOverviewSerializer" /\ instance \in CourseRunOverviews
             \/ /\ serializer = "CourseRunOverviewListSerializer"
                /\ instance \in CourseRunOverviewLists

\* serializer.is_valid(): asserts that data= was given; validates once, later
\* calls find _validated_data and leave it.
IsValid ==
    /\ op' = "is_valid"
    /\ IF initial_data = NoData
       THEN raised' = "AssertionError" /\ UNCHANGED <<is_validated, errors, validated_data>>
       ELSE /\ raised' = "none"
            /\ IF is_validated
               THEN UNCHANGED <<is_validated, errors, validated_data>>
               ELSE LET r == IF many THEN ListSerializerRunValidation(serializer, initial_data)
                                     ELSE SerializerRunValidation(serializer, initial_data)
                    IN  /\ is_validated' = TRUE
                        /\ errors' = r.errors
                        /\ validated_data' = r.ret
    /\ UNCHANGED <<serializer, many, initial_data, instance, data, rendered, invalid_status>>

\* serializer.has_invalid_status(): self.errors asserts that is_valid() has run.
HasInvalidStatus ==
    /\ serializer \in HasInvalidStatusMixin
    /\ ~many
    /\ op' = "has_invalid_status"
    /\ IF ~is_validated
       THEN raised' = "AssertionError" /\ UNCHANGED invalid_status
       ELSE /\ raised' = "none"
            /\ invalid_status' = IF has_invalid_status(errors) THEN "True" ELSE "False"
    /\ UNCHANGED <<serializer, many, initial_data, instance, is_validated, errors,
                   validated_data, data, rendered>>

\* serializer.data of a serializer built on a source record.
Data ==
    /\ instance # NoData
    /\ op' = "data"
    /\ LET r == ToRepresentation(serializer, Fields(serializer), instance, EmptyMap)
       IN  IF r.exc = "none"
           THEN data' = r.val /\ rendered' = TRUE /\ raised' = "none"
           ELSE raised' = r.exc /\ UNCHANGED <<data, rendered>>
    /\ UNCHANGED <<serializer, many, initial_data, instance, is_validated, errors,
                   validated_data, invalid_status>>

Next == IsValid \/ HasInvalidStatus \/ Data

Spec == Init /\ [][Next]_vars

-----------------------------------------------------------------------------
(* has_invalid_status() as a function of the error report: the report is the   *)
(* input, as any serializer that inherits the mixin can have recorded it.      *)

ErrorCodesOfModel == {"required", "blank", "invalid_choice"}

ErrorReports ==
    Records({"student_key", "status"},
            [student_key |-> SeqsOf(ErrorCodesOfModel, 1, MaxStatusErrors),
             status |-> SeqsOf(ErrorCodesOfModel, 1, MaxStatusErrors)])

InitErrors ==
    /\ serializer \in HasInvalidStatusMixin
    /\ many = FALSE
    /\ initial_data = Dict(EmptyMap)
    /\ instance = NoData
    /\ is_validated = TRUE
    /\ errors \in ErrorReports
    /\ validated_data = EmptyMap
    /\ data = EmptyMap
    /\ rendered = FALSE
    /\ invalid_status = "unset"
    /\ op = "is_valid"
    /\ raised = "none"

NextErrors == HasInvalidStatus

SpecErrors == InitErrors /\ [][NextErrors]_vars

-----------------------------------------------------------------------------
(* Properties *)

RequestFields == {"student_key", "status"}
OutFields == {"student_key", "status", "account_exists", "curriculum_uuid"}
GradeOptional == {"passed", "percent", "letter_grade", "error"}
OverviewOptional == {"resume_course_run_url", "emails_enabled", "micromasters_title",
                     "certificate_download_url"}
OverviewRequired == {"course_run_id", "display_name", "course_run_url", "start_date",
                     "end_date", "course_run_status", "due_dates"}
CourseRunStatuses == { <<"i","n","_","p","r","o","g","r","e","s","s">>,
                       <<"u","p","c","o","m","i","n","g">>,
                       <<"c","o","m","p","l","e","t","e","d">> }

\* A str with at least one character that is not whitespace.
NonBlank(x) == x.t = "str" /\ \E i \in 1..Len(x.v) : x.v[i] \notin Whitespace

\* A request item whose fields other than status are valid for class cls.
OthersValid(cls, m) ==
    /\ "student_key" \in DOMAIN m /\ NonBlank(m["student_key"])
    /\ cls = "ProgramEnrollmentCreateRequestSerializer" =>
          /\ "curriculum_uuid" \in DOMAIN m
          /\ m["curriculum_uuid"] \in {Str(S_uuid1), Str(S_uuid2_upper)}

SingleRequest == serializer \in HasInvalidStatusMixin /\ ~many
BatchRequest == serializer \in HasInvalidStatusMixin /\ many

\* C1: has_invalid_status() returns true exactly when the errors recorded for
\* 'status' hold at least one error of code 'invalid_choice': false when
\* 'status' has no errors, only errors of other codes, or when 'invalid_choice'
\* is recorded on another field only.
C1_HasInvalidStatusIffInvalidChoiceOnStatus ==
    (op = "has_invalid_status" /\ raised = "none") =>
        /\ invalid_status \in {"True", "False"}
        /\ invalid_status = "True" <=>
              /\ "status" \in DOMAIN errors
              /\ \E i \in 1..Len(errors["status"]) : errors["status"][i] = "invalid_choice"

\* has_invalid_status() found 'invalid_choice' behind another error of 'status'.
C1_Witness ==
    /\ op = "has_invalid_status"
    /\ invalid_status = "True"
    /\ DOMAIN errors = {"status"}
    /\ errors["status"] = <<"blank", "invalid_choice">>

\* C2: a payload (or batch item) whose other fields are valid and whose status
\* is any non-blank string validates with no error on 'status', whether or not
\* the status is a recognised one; has_invalid_status() then returns false, and
\* in a batch the item's report is empty whatever the other items hold.
C2_StatusNotCheckedHere ==
    /\ (SingleRequest /\ is_validated /\ OthersValid(serializer, initial_data.map)
          /\ "status" \in DOMAIN initial_data.map /\ NonBlank(initial_data.map["status"])) =>
            /\ errors = EmptyMap
            /\ validated_data["status"].v = Strip(initial_data.map["status"].v, Whitespace)
            /\ invalid_status \in {"unset", "False"}
    /\ (BatchRequest /\ is_validated) =>
          \A i \in 1..Len(initial_data.items) :
             (/\ OthersValid(serializer, initial_data.items[i].map)
              /\ NonBlank(initial_data.items[i].map["status"])) =>
                 (errors = <<>> \/ errors[i] = EmptyMap)

\* An unrecognised status validated, and has_invalid_status() returned false.
C2_Witness ==
    /\ serializer = "ProgramEnrollmentCreateRequestSerializer" /\ ~many
    /\ is_validated
    /\ "status" \in DOMAIN initial_data.map
    /\ initial_data.map["status"] = Str(S_invalid_status_value)
    /\ errors = EmptyMap
    /\ validated_data["status"] = Str(S_invalid_status_value)
    /\ invalid_status = "False"

\* C3: a payload in which student_key or status is the empty string fails
\* validation with a 'blank' error under that field's name, and no validated
\* mapping is produced.
C3_EmptyStringIsBlank ==
    /\ (SingleRequest /\ is_validated) =>
          \A f \in RequestFields :
             (f \in DOMAIN initial_data.map /\ initial_data.map[f] = Str(<<>>)) =>
                 /\ f \in DOMAIN errors
                 /\ errors[f] = <<"blank">>
                 /\ validated_data = EmptyMap
    /\ (BatchRequest /\ is_validated) =>
          \A i \in 1..Len(initial_data.items) : \A f \in RequestFields :
             initial_data.items[i].map[f] = Str(<<>>) =>
                 /\ errors # <<>>
                 /\ f \in DOMAIN errors[i]
                 /\ errors[i][f] = <<"blank">>
                 /\ validated_data = <<>>

\* {student_key: "", status: "enrolled"} failed on student_key only.
C3_Witness ==
    /\ serializer = "ProgramEnrollmentUpdateRequestSerializer" /\ ~many
    /\ is_validated
    /\ initial_data.map = [student_key |-> Str(<<>>), status |-> Str(S_enrolled)]
    /\ DOMAIN errors = {"student_key"}
    /\ errors["student_key"] = <<"blank">>
    /\ validated_data = EmptyMap

\* The program enrollment a record's derived fields come from: the record
\* itself, or the parent of a course enrollment.
Enrollment == IF serializer = "ProgramEnrollmentSerializer" THEN instance
              ELSE instance.map["program_enrollment"]

EnrollmentView ==
    /\ serializer \in {"ProgramEnrollmentSerializer", "ProgramCourseEnrollmentSerializer"}
    /\ Enrollment # None

\* C4: shaping an enrollment or a course enrollment yields exactly student_key,
\* status, account_exists and curriculum_uuid; student_key is the (parent)
\* enrollment's external user key, status the record's own status, and
\* curriculum_uuid the (parent) enrollment's UUID as an 8-4-4-4-12 string.
C4_EnrollmentViewFields ==
    (EnrollmentView /\ op = "data") =>
        /\ raised = "none" /\ rendered
        /\ DOMAIN data = OutFields
        /\ data["student_key"] = Enrollment.map["external_user_key"]
        /\ data["status"] = instance.map["status"]
        /\ data["curriculum_uuid"].t = "str"
        /\ IsUuidString(data["curriculum_uuid"].v)
        /\ UuidFromHex(data["curriculum_uuid"].v) = Enrollment.map["curriculum_uuid"]

\* A course enrollment shaped with its parent's key and UUID.
C4_Witness ==
    /\ serializer = "ProgramCourseEnrollmentSerializer"
    /\ rendered
    /\ data["student_key"] = Str(S_abc)
    /\ data["status"] = Str(S_active)
    /\ data["curriculum_uuid"] = Str(S_uuid1)

\* C5: account_exists is a boolean, true exactly when the enrollment has a
\* linked user: the record's own user for an enrollment, the parent program
\* enrollment's user for a course enrollment.
C5_AccountExistsIffUser ==
    (EnrollmentView /\ op = "data") =>
        /\ raised = "none" /\ rendered
        /\ data["account_exists"] =
              Bool(Enrollment.map["user"] # None)

\* A course enrollment without a link of its own, whose parent has a user.
C5_Witness ==
    /\ serializer = "ProgramCourseEnrollmentSerializer"
    /\ rendered
    /\ instance.map["course_enrollment"] = None
    /\ instance.map["program_enrollment"].map["user"] # None
    /\ data["account_exists"] = Bool(TRUE)

GradeView ==
    /\ serializer = "ProgramCourseGradeSerializer"
    /\ instance.map["program_course_enrollment"].map["program_enrollment"] # None

\* C6: the grade shaper emits student_key plus exactly the fields of the
\* source's variant: passed, percent, letter_grade for Ok, error for Error;
\* student_key is the key of the program enrollment of the course enrollment.
C6_GradeVariantFields ==
    (GradeView /\ op = "data") =>
        /\ raised = "none" /\ rendered
        /\ instance \in ProgramCourseGradesOk =>
              DOMAIN data = {"student_key", "passed", "percent", "letter_grade"}
        /\ instance \in ProgramCourseGradesError =>
              DOMAIN data = {"student_key", "error"}
        /\ data["student_key"] =
              instance.map["program_course_enrollment"].map["program_enrollment"]
                      .map["external_user_key"]

\* An Ok grade shaped: passed=true, percent=0.95, letter_grade="A", no error key.
C6_Witness ==
    /\ serializer = "ProgramCourseGradeSerializer"
    /\ rendered
    /\ data = [student_key |-> Str(S_abc), passed |-> Bool(TRUE),
               percent |-> Float(S_0_95), letter_grade |-> Str(S_A)]

OptionalFields ==
    IF serializer = "ProgramCourseGradeSerializer" THEN GradeOptional
    ELSE IF serializer = "CourseRunOverviewSerializer" THEN OverviewOptional
    ELSE {}

\* C7 as stated: an optional field without a value on the source (missing, or
\* present and null) is not a key of the emitted mapping, and no emitted
\* optional field is null.
C7_OptionalAbsentNeverNull ==
    rendered =>
        \A f \in OptionalFields :
            /\ (f \notin DOMAIN instance.map \/ instance.map[f] = None) => f \notin DOMAIN data
            /\ f \in DOMAIN data => data[f] # None

\* C7, amended: an optional field is a key of the emitted mapping exactly when
\* the source has the attribute or key, and it is emitted as null exactly when
\* the source holds null there.
C7_OptionalAbsentIffMissing ==
    rendered =>
        \A f \in OptionalFields :
            /\ f \in DOMAIN data <=> f \in DOMAIN instance.map
            /\ f \in DOMAIN data => (data[f] = None <=> instance.map[f] = None)

\* An Ok grade whose letter_grade is null: emitted as null, with no error key.
C7_Witness ==
    /\ serializer = "ProgramCourseGradeSerializer"
    /\ rendered
    /\ "letter_grade" \in DOMAIN data /\ data["letter_grade"] = None
    /\ "error" \notin DOMAIN data

\* A source that lacks what the shaper reads unconditionally: the parent
\* program enrollment of a derived field, or a required key.
SourceIncomplete ==
    CASE serializer = "ProgramCourseEnrollmentSerializer" ->
            instance.map["program_enrollment"] = None
      [] serializer = "ProgramCourseGradeSerializer" ->
            instance.map["program_course_enrollment"].map["program_enrollment"] = None
      [] serializer = "CourseRunOverviewSerializer" ->
            ~(OverviewRequired \subseteq DOMAIN instance.map)
      [] OTHER -> FALSE

\* C8 as stated: no operation ends in a raised exception.
C8_NothingRaises == raised = "none"

\* C8, amended: is_valid() on a payload never raises, has_invalid_status()
\* after is_valid() never raises, and shaping a complete source never raises;
\* has_invalid_status() before is_valid(), is_valid() without data= and
\* shaping a source with a missing parent or required key do raise.
C8_RaisesExactlyWhen ==
    /\ op = "__init__" => raised = "none"
    /\ op = "is_valid" => (raised # "none" <=> initial_data = NoData)
    /\ op = "has_invalid_status" => (raised # "none" <=> ~is_validated)
    /\ op = "data" => (raised # "none" <=> SourceIncomplete)
    /\ raised \in {"none", "AssertionError", "AttributeError", "KeyError"}

\* has_invalid_status() called before is_valid() raised AssertionError.
C8_Witness ==
    /\ op = "has_invalid_status"
    /\ ~is_validated
    /\ raised = "AssertionError"

\* The payload's course_run_status is one of the three declared values.
PayloadStatusDeclared ==
    /\ "course_run_status" \in DOMAIN initial_data.map
    /\ initial_data.map["course_run_status"].t = "str"
    /\ initial_data.map["course_run_status"].v \in CourseRunStatuses

OverviewIn == serializer = "CourseRunOverviewSerializer" /\ initial_data # NoData
OverviewOut == serializer = "CourseRunOverviewSerializer" /\ instance # NoData

\* C9 as stated: inbound shaping rejects a course_run_status that is blank or
\* not one of in_progress, upcoming, completed, and outbound shaping never
\* emits one outside this set.
C9_StatusAlwaysDeclared ==
    /\ (OverviewIn /\ is_validated /\ ~PayloadStatusDeclared) =>
          "course_run_status" \in DOMAIN errors
    /\ (OverviewOut /\ rendered) =>
          /\ data["course_run_status"].t = "str"
          /\ data["course_run_status"].v \in CourseRunStatuses

\* C9, amended: inbound shaping records an error on course_run_status exactly
\* when the payload's value is not one of the three, and a validated mapping
\* holds one of the three; outbound shaping emits the source's
\* course_run_status as it is, declared or not.
C9_StatusCheckedInboundOnly ==
    /\ (OverviewIn /\ is_validated) =>
          /\ "course_run_status" \in DOMAIN errors <=> ~PayloadStatusDeclared
          /\ errors = EmptyMap =>
                validated_data["course_run_status"] = initial_data.map["course_run_status"]
    /\ (OverviewOut /\ op = "data" /\ ~SourceIncomplete) =>
          /\ rendered
          /\ data["course_run_status"] = instance.map["course_run_status"]

\* A source whose course_run_status is 'archived' was emitted with it.
C9_Witness ==
    /\ OverviewOut
    /\ rendered
    /\ data["course_run_status"] = Str(S_archived)

\* C10: a validated mapping is keyed by the record's names: student_key is
\* under external_user_key (never under student_key), status under status,
\* curriculum_uuid (a UUID) only for the create request, even when an update
\* or course-enrollment payload supplied it; an error report is keyed by the
\* wire name student_key.
C10_ValidatedKeyedBySource ==
    (SingleRequest /\ is_validated) =>
        /\ "student_key" \notin DOMAIN validated_data
        /\ "external_user_key" \notin DOMAIN errors
        /\ DOMAIN errors \subseteq
              (RequestFields \cup
               IF serializer = "ProgramEnrollmentCreateRequestSerializer"
               THEN {"curriculum_uuid"} ELSE {})
        /\ ("student_key" \notin DOMAIN initial_data.map
               \/ ~NonBlank(initial_data.map["student_key"])) =>
              "student_key" \in DOMAIN errors
        /\ errors = EmptyMap =>
              /\ DOMAIN validated_data =
                    {"external_user_key", "status"} \cup
                    IF serializer = "ProgramEnrollmentCreateRequestSerializer"
                    THEN {"curriculum_uuid"} ELSE {}
              /\ validated_data["external_user_key"].v =
                    Strip(initial_data.map["student_key"].v, Whitespace)
              /\ validated_data["status"].v =
                    Strip(initial_data.map["status"].v, Whitespace)
              /\ serializer = "ProgramEnrollmentCreateRequestSerializer" =>
                    validated_data["curriculum_uuid"].t = "uuid"

\* An update payload that supplied curriculum_uuid validated without it.
C10_Witness ==
    /\ serializer = "ProgramEnrollmentUpdateRequestSerializer" /\ ~many
    /\ is_validated
    /\ "curriculum_uuid" \in DOMAIN initial_data.map
    /\ validated_data = [external_user_key |-> Str(S_abc), status |-> Str(S_enrolled)]

=============================================================================
